---- MODULE Spec2Model ----
(***************************************************************************)
(* Model of the udf-bench measurement harness.                             *)
(*                                                                         *)
(*   Spec        : one call of SystemRunner.benchmark (runners/base.py),   *)
(*                 with every subprocess of run_query as a process that    *)
(*                 is launched and later exits or is killed on timeout.    *)
(*   SpecRunners : one call of create_runners (bench.py), constructing the *)
(*                 engine adapters and running their health checks.        *)
(*   SpecFilter  : one call of filter_udfs (bench.py).                     *)
(*   SpecMain    : a run of main (bench.py): create_runners, filter_udfs,  *)
(*                 the sweep over (case, engine) pairs with its benchmark  *)
(*                 calls, and the results table.                           *)
(*   SpecFair    : Spec with the driver and the clock making progress.     *)
(*                                                                         *)
(* Strings that the code inspects (stderr, error messages) are sequences   *)
(* of one-character strings.  An optional value (Python's "x | None") is a *)
(* sequence of length 0 (None) or 1 (the value).  Times are integers in an *)
(* arbitrary unit.                                                         *)
(***************************************************************************)
EXTENDS Integers, Sequences, FiniteSets, TLC

----------------------------------------------------------------------------
(* Bounds of the model *)

MaxWarmup == 2
MaxRuns == 4
MaxElapsed == 3

----------------------------------------------------------------------------
(* Program constants *)

\* run_query's default timeout (seconds)
DefaultTimeout == 300
\* the health check's timeout (seconds)
VerifyTimeout == 10
\* stderr is cut to this many characters
ErrLimit == 200
\* float("inf"): larger than every finite time of the model
Inf == 1000000

----------------------------------------------------------------------------
(* Python values *)

None == <<>>
Some(v) == <<v>>

\* Python truthiness of a "str | None": None and "" are both false
Truthy(err) == err # None /\ Len(err[1]) > 0

\* s[k] with Python's 0-based index
PyIndex(s, k) == s[k + 1]

Min2(a, b) == IF a <= b THEN a ELSE b

Range(s) == {s[k] : k \in DOMAIN s}

IsSpace(c) == c \in {" ", "\t", "\n"}

RECURSIVE LStrip(_)
LStrip(s) ==
  IF s = <<>> THEN <<>>
  ELSE IF IsSpace(Head(s)) THEN LStrip(Tail(s)) ELSE s

RECURSIVE RStrip(_)
RStrip(s) ==
  IF s = <<>> THEN <<>>
  ELSE IF IsSpace(s[Len(s)]) THEN RStrip(SubSeq(s, 1, Len(s) - 1)) ELSE s

\* str.strip()
Strip(s) == RStrip(LStrip(s))

\* s[:n]
Truncate(s, n) == SubSeq(s, 1, Min2(Len(s), n))

RECURSIVE InsertSorted(_, _)
InsertSorted(x, s) ==
  IF s = <<>> THEN <<x>>
  ELSE IF x <= Head(s) THEN <<x>> \o s
  ELSE <<Head(s)>> \o InsertSorted(x, Tail(s))

\* list.sort(): ascending
RECURSIVE SortAsc(_)
SortAsc(s) == IF s = <<>> THEN <<>> ELSE InsertSorted(Head(s), SortAsc(Tail(s)))

----------------------------------------------------------------------------
(* Outcomes of an external process *)

\* what a process may have written to its error stream
StderrValues == {<<>>, <<"\n">>, <<"e">>, <<" ", "e", "\n">>, <<"e", " ", "r">>}
ExitCodes == {0, 1}
ElapsedValues == 1..MaxElapsed

\* the process exits by itself, or subprocess.run kills it when the timeout
\* elapses (returncode of a killed child: -9)
ExitOutcomes ==
  [kind : {"exit"}, code : ExitCodes, stderr : StderrValues, elapsed : ElapsedValues]
TimeoutOutcome(limit) ==
  [kind |-> "timeout", code |-> -9, stderr |-> <<>>, elapsed |-> limit]
QueryOutcomes == ExitOutcomes \cup {TimeoutOutcome(DefaultTimeout)}

\* what the specification calls a failed invocation
Failed(o) == o.kind = "timeout" \/ o.code # 0

TIMEOUT == <<"T", "I", "M", "E", "O", "U", "T">>
WarmupPrefix ==
  <<"w", "a", "r", "m", "u", "p", " ", "f", "a", "i", "l", "e", "d", ":", " ">>

----------------------------------------------------------------------------
VARIABLES
  pc,            \* position of the modelled call
  procs,         \* number of external processes alive
  exc,           \* the exception that left the call (None if none)
  \* SystemRunner.benchmark
  warmup, runs,  \* benchmark's parameters
  i,             \* iterations of the current loop that are finished
  times,         \* benchmark's local list
  result,        \* the BenchResult returned (None until then)
  launches,      \* history: the invocation slots launched, in order
  firstFailure,  \* history: the first invocation that failed (None if none)
  okCount,       \* history: number of timed invocations that succeeded
  elapsedLog,    \* history: what run_query returned as elapsed, timed runs
  \* create_runners
  config,        \* config["systems"]: engine name -> its table, or None
  only,          \* the --system selection (None, or a set of names)
  idx,           \* engines of runner_classes already visited
  runners,       \* the runners dict: its keys in insertion order
  warnings,      \* engines a "WARNING: Skipping" line was printed for
  health,        \* history: how each engine's construction went
  \* filter_udfs
  udfs_cfg,      \* config["udfs"]: include, exclude, categories
  cli_udfs,      \* --udf (None, or the names given)
  cli_categories, \* --category (None, or the categories given)
  udfs,          \* the list of cases: UDFS, then the filtered list
  \* main
  dataExists,    \* whether the data file exists
  declared,      \* the order in which the config file declares the systems
  ci, ei,        \* positions of the two loops of the sweep
  all_results,   \* case name -> (engine -> BenchResult), None: no key
  progress,      \* the progress lines printed, one per (case, engine)
  visits,        \* history: the (case, engine) pairs the sweep has visited
  calls,         \* history: the adapter calls made, in order
  table,         \* the rows print_results_table printed (None until then)
  exitCode,      \* the status of sys.exit (None if not called)
  launchLog      \* history: the pair each query process was launched for

benchVars ==
  <<warmup, runs, i, times, result, launches, firstFailure, okCount, elapsedLog>>
crVars == <<config, only, idx, runners, warnings, health>>
filterVars == <<udfs_cfg, cli_udfs, cli_categories, udfs>>
mainVars ==
  <<dataExists, declared, ci, ei, all_results, progress, visits, calls, table, exitCode>>
vars == <<pc, procs, exc, benchVars, crVars, filterVars, mainVars, launchLog>>

\* the case and the engine of the benchmark call under way (the placeholders
\* "udf" and "engine" when benchmark is called on its own)
CallUdf == IF ci < Len(udfs) THEN udfs[ci + 1].name ELSE "udf"
CallSystem == IF ei < Len(runners) THEN runners[ei + 1] ELSE "engine"

----------------------------------------------------------------------------
(* SystemRunner.run_query and SystemRunner.benchmark *)

\* variant: the TimeoutExpired handler reports no error
run_query_TimeoutSilent(o) ==
  IF o.kind = "timeout" THEN <<DefaultTimeout, None>>
  ELSE IF o.code # 0 THEN <<o.elapsed, Some(Truncate(Strip(o.stderr), ErrLimit))>>
  ELSE <<o.elapsed, None>>

\* run_query's return value (elapsed, error) for a finished process
run_query(o) ==
  IF o.kind = "timeout" THEN <<DefaultTimeout, Some(TIMEOUT)>>
  ELSE IF o.code # 0 THEN <<o.elapsed, Some(Truncate(Strip(o.stderr), ErrLimit))>>
  ELSE <<o.elapsed, None>>

BenchResult(ts, median, min, err) ==
  [udf_name |-> CallUdf, system |-> CallSystem, times |-> ts,
   median_time |-> median, min_time |-> min, error |-> err]

\* return BenchResult(..., error=f"warmup failed: {err}")
WarmupFailureResult(err) == BenchResult(<<>>, Inf, Inf, Some(WarmupPrefix \o err[1]))

\* variant: statistics of the partial times are reported with the error
TimedFailureResult_PartialStats(ts, err) ==
  IF ts = <<>> THEN BenchResult(ts, Inf, Inf, err)
  ELSE BenchResult(ts, SortAsc(ts)[(Len(ts) \div 2) + 1], SortAsc(ts)[1], err)

\* return BenchResult(..., times=times, error=err)
TimedFailureResult(ts, err) == BenchResult(ts, Inf, Inf, err)

\* variant: the sort is left out
SortTimes_Unsorted(ts) == ts

\* times.sort()
SortTimes(ts) == SortAsc(ts)

\* variant: times[(len(times) - 1) // 2]
MedianOf_Lower(ts) == PyIndex(ts, (Len(ts) - 1) \div 2)

\* times[len(times) // 2]
MedianOf(ts) == PyIndex(ts, Len(ts) \div 2)

\* variant: times[-1]
MinOf_Last(ts) == PyIndex(ts, Len(ts) - 1)

\* times[0]
MinOf(ts) == PyIndex(ts, 0)

SuccessResult(ts) == BenchResult(ts, MedianOf(ts), MinOf(ts), None)

RecordFailure(o) ==
  IF firstFailure = None /\ Failed(o)
  THEN Some([slot |-> Len(launches), kind |-> o.kind, stderr |-> o.stderr])
  ELSE firstFailure

\* for _ in range(warmup): ... subprocess.run(cmd, ...) starts the process
WarmupLaunch ==
  /\ pc = "warmup"
  /\ i < warmup
  /\ pc' = "warmup_run"
  /\ procs' = procs + 1
  /\ launches' = Append(launches, <<"warmup", i>>)
  /\ UNCHANGED <<warmup, runs, i, times, result, exc, firstFailure, okCount, elapsedLog>>
  /\ UNCHANGED crVars
  /\ launchLog' = Append(launchLog, <<CallUdf, CallSystem>>)
  /\ UNCHANGED <<filterVars, mainVars>>

\* the warmup's process ends; run_query returns; benchmark tests err
WarmupFinish(o) ==
  /\ pc = "warmup_run"
  /\ procs' = procs - 1
  /\ firstFailure' = RecordFailure(o)
  /\ LET err == run_query(o)[2]
     IN IF Truthy(err)
        THEN /\ result' = Some(WarmupFailureResult(err))
             /\ pc' = "done"
             /\ i' = i
        ELSE /\ result' = result
             /\ pc' = "warmup"
             /\ i' = i + 1
  /\ UNCHANGED <<warmup, runs, times, exc, launches, okCount, elapsedLog>>
  /\ UNCHANGED crVars
  /\ UNCHANGED <<filterVars, mainVars, launchLog>>

\* the warmup loop is exhausted: times = []
WarmupEnd ==
  /\ pc = "warmup"
  /\ i >= warmup
  /\ pc' = "timed"
  /\ i' = 0
  /\ times' = <<>>
  /\ UNCHANGED <<warmup, runs, result, procs, exc, launches, firstFailure>>
  /\ UNCHANGED <<okCount, elapsedLog, crVars>>
  /\ UNCHANGED <<filterVars, mainVars, launchLog>>

\* for _ in range(runs): ... subprocess.run(cmd, ...) starts the process
TimedLaunch ==
  /\ pc = "timed"
  /\ i < runs
  /\ pc' = "timed_run"
  /\ procs' = procs + 1
  /\ launches' = Append(launches, <<"timed", i>>)
  /\ UNCHANGED <<warmup, runs, i, times, result, exc, firstFailure, okCount, elapsedLog>>
  /\ UNCHANGED crVars
  /\ launchLog' = Append(launchLog, <<CallUdf, CallSystem>>)
  /\ UNCHANGED <<filterVars, mainVars>>

\* the timed run's process ends; run_query returns; benchmark tests err
TimedFinish(o) ==
  /\ pc = "timed_run"
  /\ procs' = procs - 1
  /\ firstFailure' = RecordFailure(o)
  /\ okCount' = IF Failed(o) THEN okCount ELSE okCount + 1
  /\ LET r == run_query(o)
     IN /\ elapsedLog' = Append(elapsedLog, r[1])
        /\ IF Truthy(r[2])
           THEN /\ result' = Some(TimedFailureResult(times, r[2]))
                /\ pc' = "done"
                /\ UNCHANGED <<i, times>>
           ELSE /\ times' = Append(times, r[1])
                /\ result' = result
                /\ pc' = "timed"
                /\ i' = i + 1
  /\ UNCHANGED <<warmup, runs, exc, launches, crVars>>
  /\ UNCHANGED <<filterVars, mainVars, launchLog>>

\* the timed loop is exhausted: sort, median, min; times[len(times) // 2]
\* raises IndexError on an empty list
Reduce ==
  /\ pc = "timed"
  /\ i >= runs
  /\ LET sorted == SortTimes(times)
     IN /\ times' = sorted
        /\ IF Len(sorted) = 0
           THEN /\ exc' = Some("IndexError")
                /\ pc' = "raised"
                /\ result' = result
           ELSE /\ result' = Some(SuccessResult(sorted))
                /\ pc' = "done"
                /\ exc' = exc
  /\ UNCHANGED <<warmup, runs, i, procs, launches, firstFailure, okCount, elapsedLog>>
  /\ UNCHANGED crVars
  /\ UNCHANGED <<filterVars, mainVars, launchLog>>

----------------------------------------------------------------------------
(* create_runners and SystemRunner._verify_binary *)

\* variant: the engines are visited in sorted order
EngineOrder_Sorted == <<"clickhouse", "datafusion", "duckdb">>

\* runner_classes, in the dict's order
EngineOrder == <<"datafusion", "duckdb", "clickhouse">>

Engines == Range(EngineOrder)

\* an engine's table in config["systems"]: the keys it may hold
SystemTables == [enabled : {"unset", "true", "false"}, binary : {"unset", "set"}]
Configs == [Engines -> {None} \cup {Some(t) : t \in SystemTables}]
OnlyValues == {None} \cup {Some(S) : S \in (SUBSET Engines) \ {{}}}

\* how starting the version command can go
SpawnOutcomes == {"started", "notfound", "noexec"}
VerifyOutcomes ==
  [kind : {"exit"}, code : ExitCodes, stderr : {<<>>}, elapsed : {1}]
    \cup {TimeoutOutcome(VerifyTimeout)}

\* sys_cfg = config["systems"].get(name, {})
sys_cfg(name) ==
  IF config[name] = None THEN [enabled |-> "unset", binary |-> "unset"]
  ELSE config[name][1]

\* if only and name not in only: continue
\* if not sys_cfg.get("enabled", True): continue
Skipped(name) ==
  \/ only # None /\ only[1] # {} /\ name \notin only[1]
  \/ sys_cfg(name).enabled = "false"

\* the exception subprocess.run raises when the process cannot be started,
\* as it leaves _verify_binary (FileNotFoundError is turned into RuntimeError)
SpawnError(s) ==
  IF s = "notfound" THEN Some("RuntimeError")
  ELSE IF s = "noexec" THEN Some("PermissionError")
  ELSE None

\* the exception that leaves _verify_binary once the process has ended
verify_binary(o) ==
  IF o.kind = "timeout" THEN Some("TimeoutExpired")
  ELSE IF o.code # 0 THEN Some("RuntimeError")
  ELSE None

\* variant: except FileNotFoundError as e
Caught_OnlyNotFound(e) == e = Some("FileNotFoundError")

\* except RuntimeError as e
Caught(e) == e = Some("RuntimeError")

Current == EngineOrder[idx + 1]

\* the loop's two "continue" statements
SkipEngine ==
  /\ pc = "cr_loop"
  /\ idx < Len(EngineOrder)
  /\ Skipped(Current)
  /\ idx' = idx + 1
  /\ UNCHANGED <<pc, procs, exc, config, only, runners, warnings, health, benchVars>>
  /\ UNCHANGED <<filterVars, mainVars, launchLog>>

\* cls(binary=sys_cfg["binary"], ...): the table has no "binary" key
MissingBinary ==
  /\ pc = "cr_loop"
  /\ idx < Len(EngineOrder)
  /\ ~Skipped(Current)
  /\ sys_cfg(Current).binary = "unset"
  /\ exc' = Some("KeyError")
  /\ pc' = "raised"
  /\ health' = [health EXCEPT ![Current] = "nokey"]
  /\ UNCHANGED <<procs, config, only, idx, runners, warnings, benchVars>>
  /\ UNCHANGED <<filterVars, mainVars, launchLog>>

\* cls(binary=..., data_path=...) -> _verify_binary -> subprocess.run starts
\* the version command, or fails to
ConstructRunner(s) ==
  /\ pc = "cr_loop"
  /\ idx < Len(EngineOrder)
  /\ ~Skipped(Current)
  /\ sys_cfg(Current).binary = "set"
  /\ IF s = "started"
     THEN /\ pc' = "cr_verify"
          /\ procs' = procs + 1
          /\ UNCHANGED <<exc, idx, warnings, health>>
     ELSE /\ health' = [health EXCEPT ![Current] = s]
          /\ procs' = procs
          /\ IF Caught(SpawnError(s))
             THEN /\ warnings' = Append(warnings, Current)
                  /\ idx' = idx + 1
                  /\ UNCHANGED <<pc, exc>>
             ELSE /\ exc' = SpawnError(s)
                  /\ pc' = "raised"
                  /\ UNCHANGED <<idx, warnings>>
  /\ UNCHANGED <<config, only, runners, benchVars>>
  /\ UNCHANGED <<filterVars, mainVars, launchLog>>

\* the version command ends (or is killed after the timeout); _verify_binary
\* returns or raises; create_runners stores the runner or handles the error
VerifyFinish(o) ==
  /\ pc = "cr_verify"
  /\ procs' = procs - 1
  /\ health' = [health EXCEPT ![Current] =
                  IF o.kind = "timeout" THEN "timeout"
                  ELSE IF o.code # 0 THEN "nonzero" ELSE "ok"]
  /\ LET e == verify_binary(o)
     IN IF e = None
        THEN /\ runners' = Append(runners, Current)
             /\ idx' = idx + 1
             /\ pc' = "cr_loop"
             /\ UNCHANGED <<exc, warnings>>
        ELSE IF Caught(e)
        THEN /\ warnings' = Append(warnings, Current)
             /\ idx' = idx + 1
             /\ pc' = "cr_loop"
             /\ UNCHANGED <<exc, runners>>
        ELSE /\ exc' = e
             /\ pc' = "raised"
             /\ UNCHANGED <<idx, runners, warnings>>
  /\ UNCHANGED <<config, only, benchVars>>
  /\ UNCHANGED <<filterVars, mainVars, launchLog>>

\* return runners
ReturnRunners ==
  /\ pc = "cr_loop"
  /\ idx = Len(EngineOrder)
  /\ pc' = "cr_done"
  /\ UNCHANGED <<procs, exc, crVars, benchVars>>
  /\ UNCHANGED <<filterVars, mainVars, launchLog>>

----------------------------------------------------------------------------
(* The catalog (udfs.py) and filter_udfs *)

\* UDFS: an excerpt of the catalog, in definition order; `unsupported` holds
\* the engines whose query template is None
Catalog ==
  << [name |-> "upper", category |-> "string", unsupported |-> {}],
     [name |-> "lower", category |-> "string", unsupported |-> {}],
     [name |-> "initcap", category |-> "string", unsupported |-> {"duckdb"}],
     [name |-> "abs", category |-> "math", unsupported |-> {}] >>

CaseNames == {Catalog[k].name : k \in DOMAIN Catalog}
Categories == {Catalog[k].category : k \in DOMAIN Catalog}

\* variant: a case without a template for the engine gets a default query
query_for_Always(u, system) == Some(<<"SELECT", u.name, system>>)

\* UDFBenchmark.query_for: the template, or None
query_for(u, system) ==
  IF system \in u.unsupported THEN None ELSE Some(<<"SELECT", u.name, system>>)

\* the names and categories the filters of the model may hold
FilterNames == {"upper", "lower", "abs"}
NameLists == {None} \cup {Some(S) : S \in SUBSET FilterNames}
CategoryLists == {None} \cup {Some(S) : S \in SUBSET Categories}
CliNameLists == {None} \cup {Some(S) : S \in (SUBSET FilterNames) \ {{}}}
CliCategoryLists == {None} \cup {Some(S) : S \in (SUBSET Categories) \ {{}}}
UdfsConfigs == [include : NameLists, exclude : NameLists, categories : CategoryLists]

Names(us) == [k \in DOMAIN us |-> us[k].name]

\* Python truthiness of a "list | None": None and [] are both false
NonEmpty(l) == l # None /\ l[1] # {}

KeepNames(us, S) == SelectSeq(us, LAMBDA u : u.name \in S)
DropNames(us, S) == SelectSeq(us, LAMBDA u : u.name \notin S)
KeepCategories(us, S) == SelectSeq(us, LAMBDA u : u.category \in S)

\* if include: udfs = [u for u in udfs if u.name in include_set]
ApplyInclude(us, include) == IF NonEmpty(include) THEN KeepNames(us, include[1]) ELSE us

\* variant: the exclude list is not applied
ApplyExclude_Ignored(us, exclude) == us

\* exclude = set(udfs_cfg.get("exclude", []))
\* if exclude: udfs = [u for u in udfs if u.name not in exclude]
ApplyExclude(us, exclude) == IF NonEmpty(exclude) THEN DropNames(us, exclude[1]) ELSE us

\* if categories: udfs = [u for u in udfs if u.category in cat_set]
ApplyCategories(us, categories) ==
  IF NonEmpty(categories) THEN KeepCategories(us, categories[1]) ELSE us

\* if cli_udfs: udfs = [u for u in udfs if u.name in udf_set]
ApplyCliUdfs(us, cli) == IF NonEmpty(cli) THEN KeepNames(us, cli[1]) ELSE us

\* if cli_categories: udfs = [u for u in udfs if u.category in cat_set]
ApplyCliCategories(us, cli) == IF NonEmpty(cli) THEN KeepCategories(us, cli[1]) ELSE us

filter_udfs(us, cfg, cliU, cliC) ==
  ApplyCliCategories(
    ApplyCliUdfs(
      ApplyCategories(ApplyExclude(ApplyInclude(us, cfg.include), cfg.exclude),
                      cfg.categories),
      cliU),
    cliC)

\* udfs = filter_udfs(UDFS, config, args.udf, args.category)
FilterUdfs ==
  /\ pc = "filter"
  /\ udfs' = filter_udfs(udfs, udfs_cfg, cli_udfs, cli_categories)
  /\ pc' = "filtered"
  /\ UNCHANGED <<procs, exc, benchVars, crVars, udfs_cfg, cli_udfs, cli_categories>>
  /\ UNCHANGED <<mainVars, launchLog>>

----------------------------------------------------------------------------
(* main: the driver *)

CurrentUdf == udfs[ci + 1]
CurrentSystem == runners[ei + 1]

Exit(status) ==
  /\ exitCode' = Some(status)
  /\ pc' = "exited"

\* if not data_path.exists(): ... sys.exit(1); runners = create_runners(...)
MainStart ==
  /\ pc = "main"
  /\ IF dataExists THEN pc' = "cr_loop" /\ exitCode' = exitCode ELSE Exit(1)
  /\ UNCHANGED <<procs, exc, benchVars, crVars, filterVars, launchLog>>
  /\ UNCHANGED <<dataExists, declared, ci, ei, all_results, progress, visits, calls, table>>

\* variant: the check for an empty runners dict is missing
CheckRunners_NoExit ==
  /\ pc = "cr_done"
  /\ pc' = "filter"
  /\ UNCHANGED <<procs, exc, benchVars, crVars, filterVars, mainVars, launchLog>>

\* if not runners: print("ERROR: No systems available"); sys.exit(1)
CheckRunners ==
  /\ pc = "cr_done"
  /\ IF runners = <<>> THEN Exit(1) ELSE pc' = "filter" /\ exitCode' = exitCode
  /\ UNCHANGED <<procs, exc, benchVars, crVars, filterVars, launchLog>>
  /\ UNCHANGED <<dataExists, declared, ci, ei, all_results, progress, visits, calls, table>>

\* if not udfs: print("ERROR: No UDFs selected"); sys.exit(1)
\* all_results = {}
CheckUdfs ==
  /\ pc = "filtered"
  /\ IF udfs = <<>> THEN Exit(1) ELSE pc' = "case_loop" /\ exitCode' = exitCode
  /\ UNCHANGED <<procs, exc, benchVars, crVars, filterVars, launchLog>>
  /\ UNCHANGED <<dataExists, declared, ci, ei, all_results, progress, visits, calls, table>>

\* for i, udf in enumerate(udfs, 1): all_results[udf.name] = {}
CaseBegin ==
  /\ pc = "case_loop"
  /\ ci < Len(udfs)
  /\ all_results' =
       [all_results EXCEPT ![CurrentUdf.name] = Some([e \in Engines |-> None])]
  /\ ei' = 0
  /\ pc' = "sys_loop"
  /\ UNCHANGED <<procs, exc, benchVars, crVars, filterVars, launchLog>>
  /\ UNCHANGED <<dataExists, declared, ci, progress, visits, calls, table, exitCode>>

Line(text) == [udf |-> CurrentUdf.name, system |-> CurrentSystem, text |-> text]

\* query = udf.query_for(sys_name); if query is None: print n/a; continue
SysNotApplicable ==
  /\ pc = "sys_loop"
  /\ ei < Len(runners)
  /\ query_for(CurrentUdf, CurrentSystem) = None
  /\ progress' = Append(progress, Line("n/a"))
  /\ visits' = Append(visits, <<CurrentUdf.name, CurrentSystem>>)
  /\ ei' = ei + 1
  /\ UNCHANGED <<pc, procs, exc, benchVars, crVars, filterVars, launchLog>>
  /\ UNCHANGED <<dataExists, declared, ci, all_results, calls, table, exitCode>>

Call(op) == [op |-> op, udf |-> CurrentUdf.name, system |-> CurrentSystem]

\* sql = query.format(table=runner.table_ref()); runner.benchmark(...) begins
SysBenchmark ==
  /\ pc = "sys_loop"
  /\ ei < Len(runners)
  /\ query_for(CurrentUdf, CurrentSystem) # None
  /\ calls' = calls \o <<Call("table_ref"), Call("benchmark")>>
  /\ visits' = Append(visits, <<CurrentUdf.name, CurrentSystem>>)
  /\ pc' = "warmup"
  /\ i' = 0
  /\ times' = <<>>
  /\ result' = None
  /\ launches' = <<>>
  /\ firstFailure' = None
  /\ okCount' = 0
  /\ elapsedLog' = <<>>
  /\ UNCHANGED <<procs, exc, warmup, runs, crVars, filterVars, launchLog>>
  /\ UNCHANGED <<dataExists, declared, ci, ei, all_results, progress, table, exitCode>>

\* format_time: "ERROR" for inf, else the time as text
format_time(seconds) ==
  IF seconds = Inf THEN [text |-> "ERROR", value |-> Inf]
  ELSE [text |-> "time", value |-> seconds]

\* benchmark has returned: all_results[udf.name][sys_name] = result, and the
\* progress line for it
StoreResult ==
  /\ pc = "done"
  /\ all_results' =
       [all_results EXCEPT ![CurrentUdf.name] =
          Some([@[1] EXCEPT ![CurrentSystem] = result])]
  /\ progress' =
       Append(progress,
              Line(IF Truthy(result[1].error) THEN "ERROR"
                   ELSE format_time(result[1].median_time).text))
  /\ ei' = ei + 1
  /\ pc' = "sys_loop"
  /\ UNCHANGED <<procs, exc, benchVars, crVars, filterVars, launchLog>>
  /\ UNCHANGED <<dataExists, declared, ci, visits, calls, table, exitCode>>

\* the inner loop is exhausted
CaseEnd ==
  /\ pc = "sys_loop"
  /\ ei = Len(runners)
  /\ ci' = ci + 1
  /\ pc' = "case_loop"
  /\ UNCHANGED <<procs, exc, benchVars, crVars, filterVars, launchLog>>
  /\ UNCHANGED <<dataExists, declared, ei, all_results, progress, visits, calls, table>>
  /\ UNCHANGED exitCode

\* print_results_table: the cell of one (case, engine)
Cell(r) ==
  IF r # None /\ ~Truthy(r[1].error) THEN format_time(r[1].median_time)
  ELSE IF r # None /\ Truthy(r[1].error) THEN [text |-> "ERROR", value |-> Inf]
  ELSE [text |-> "n/a", value |-> Inf]

\* print_results_table: one row per key of results, one cell per system
print_results_table(results, systems, us) ==
  LET keys == SelectSeq(Names(us), LAMBDA n : results[n] # None)
  IN [k \in DOMAIN keys |->
        [udf |-> keys[k],
         cells |-> [j \in DOMAIN systems |-> Cell(results[keys[k]][1][systems[j]])]]]

\* the outer loop is exhausted: print_results_table(all_results, ...)
Output ==
  /\ pc = "case_loop"
  /\ ci = Len(udfs)
  /\ table' = Some(print_results_table(all_results, runners, udfs))
  /\ pc' = "main_done"
  /\ UNCHANGED <<procs, exc, benchVars, crVars, filterVars, launchLog>>
  /\ UNCHANGED <<dataExists, declared, ci, ei, all_results, progress, visits, calls>>
  /\ UNCHANGED exitCode

----------------------------------------------------------------------------
(* Specifications *)

FilterIdle ==
  /\ udfs_cfg = [include |-> None, exclude |-> None, categories |-> None]
  /\ cli_udfs = None
  /\ cli_categories = None
  /\ udfs = <<>>

MainIdle ==
  /\ dataExists = TRUE
  /\ declared = EngineOrder
  /\ ci = 0
  /\ ei = 0
  /\ all_results = [n \in CaseNames |-> None]
  /\ progress = <<>>
  /\ visits = <<>>
  /\ calls = <<>>
  /\ table = None
  /\ exitCode = None
  /\ launchLog = <<>>

BenchIdle ==
  /\ warmup = 0
  /\ runs = 0
  /\ i = 0
  /\ times = <<>>
  /\ result = None
  /\ launches = <<>>
  /\ firstFailure = None
  /\ okCount = 0
  /\ elapsedLog = <<>>

RunnersIdle ==
  /\ config = [e \in Engines |-> None]
  /\ only = None
  /\ idx = 0
  /\ runners = <<>>
  /\ warnings = <<>>
  /\ health = [e \in Engines |-> "none"]

\* a call benchmark(udf_name, sql, warmup, runs)
Init ==
  /\ pc = "warmup"
  /\ procs = 0
  /\ exc = None
  /\ warmup \in 0..MaxWarmup
  /\ runs \in 0..MaxRuns
  /\ i = 0
  /\ times = <<>>
  /\ result = None
  /\ launches = <<>>
  /\ firstFailure = None
  /\ okCount = 0
  /\ elapsedLog = <<>>
  /\ RunnersIdle
  /\ FilterIdle
  /\ MainIdle

Next ==
  \/ WarmupLaunch
  \/ \E o \in QueryOutcomes : WarmupFinish(o)
  \/ WarmupEnd
  \/ TimedLaunch
  \/ \E o \in QueryOutcomes : TimedFinish(o)
  \/ Reduce

Spec == Init /\ [][Next]_vars

\* a call create_runners(config, data_path, only)
InitRunners ==
  /\ pc = "cr_loop"
  /\ procs = 0
  /\ exc = None
  /\ config \in Configs
  /\ only \in OnlyValues
  /\ idx = 0
  /\ runners = <<>>
  /\ warnings = <<>>
  /\ health = [e \in Engines |-> "none"]
  /\ BenchIdle
  /\ FilterIdle
  /\ MainIdle

NextRunners ==
  \/ SkipEngine
  \/ MissingBinary
  \/ \E s \in SpawnOutcomes : ConstructRunner(s)
  \/ \E o \in VerifyOutcomes : VerifyFinish(o)
  \/ ReturnRunners

SpecRunners == InitRunners /\ [][NextRunners]_vars

\* a call filter_udfs(UDFS, config, cli_udfs, cli_categories)
InitFilter ==
  /\ pc = "filter"
  /\ procs = 0
  /\ exc = None
  /\ udfs_cfg \in UdfsConfigs
  /\ cli_udfs \in CliNameLists
  /\ cli_categories \in CliCategoryLists
  /\ udfs = Catalog
  /\ BenchIdle
  /\ RunnersIdle
  /\ MainIdle

NextFilter == FilterUdfs

SpecFilter == InitFilter /\ [][NextFilter]_vars

\* one call of benchmark when every step that can be taken is taken: the
\* interpreter goes on, and subprocess.run returns or kills the child when
\* the timeout elapses
SpecFair == Spec /\ WF_vars(Next)

\* the configurations of a run of main: every engine has its table with a
\* binary; engines may be disabled
MainConfigs ==
  [Engines -> {Some([enabled |-> e, binary |-> "set"]) : e \in {"unset", "false"}}]
MainUdfsConfigs ==
  { [include |-> Some({"upper", "initcap"}), exclude |-> None, categories |-> None],
    [include |-> Some({"initcap"}), exclude |-> Some({"upper"}), categories |-> None],
    [include |-> Some({"upper"}), exclude |-> None, categories |-> Some({"math"})] }
\* the orders in which the config file may declare the systems
DeclaredOrders == {EngineOrder, <<"clickhouse", "duckdb", "datafusion">>}
\* general.warmup_runs and general.bench_runs
MainParams == {<<1, 0>>, <<1, 1>>}
\* what a query process does in a run of main
MainOutcomes ==
  {o \in QueryOutcomes :
     o.elapsed \in {1, DefaultTimeout} /\ o.stderr \in {<<>>, <<"e">>}}

\* a run of main
InitMain ==
  /\ pc = "main"
  /\ procs = 0
  /\ exc = None
  /\ \E p \in MainParams : warmup = p[1] /\ runs = p[2]
  /\ i = 0
  /\ times = <<>>
  /\ result = None
  /\ launches = <<>>
  /\ firstFailure = None
  /\ okCount = 0
  /\ elapsedLog = <<>>
  /\ config \in MainConfigs
  /\ only = None
  /\ idx = 0
  /\ runners = <<>>
  /\ warnings = <<>>
  /\ health = [e \in Engines |-> "none"]
  /\ udfs_cfg \in MainUdfsConfigs
  /\ cli_udfs = None
  /\ cli_categories = None
  /\ udfs = Catalog
  /\ dataExists \in BOOLEAN
  /\ declared \in DeclaredOrders
  /\ ci = 0
  /\ ei = 0
  /\ all_results = [n \in CaseNames |-> None]
  /\ progress = <<>>
  /\ visits = <<>>
  /\ calls = <<>>
  /\ table = None
  /\ exitCode = None
  /\ launchLog = <<>>

NextMain ==
  \/ MainStart
  \/ SkipEngine
  \/ \E s \in SpawnOutcomes : ConstructRunner(s)
  \/ \E o \in VerifyOutcomes : VerifyFinish(o)
  \/ ReturnRunners
  \/ CheckRunners
  \/ FilterUdfs
  \/ CheckUdfs
  \/ CaseBegin
  \/ SysNotApplicable
  \/ SysBenchmark
  \/ WarmupLaunch
  \/ \E o \in MainOutcomes : WarmupFinish(o)
  \/ WarmupEnd
  \/ TimedLaunch
  \/ \E o \in MainOutcomes : TimedFinish(o)
  \/ Reduce
  \/ StoreResult
  \/ CaseEnd
  \/ Output

SpecMain == InitMain /\ [][NextMain]_vars

----------------------------------------------------------------------------
(* Properties of benchmark (checked under Spec) *)

Ended == pc \in {"done", "raised"}

\* the failing invocation was a warmup / a timed run
FailedInWarmup == firstFailure # None /\ firstFailure[1].slot <= warmup
FailedInTimed == firstFailure # None /\ firstFailure[1].slot > warmup

IsPrefix(p, s) == Len(p) <= Len(s) /\ SubSeq(s, 1, Len(p)) = p

\* "warmup failed:"
WarmupFailedColon == SubSeq(WarmupPrefix, 1, 14)

\* the error the specification attaches to a failed invocation
ErrorOfFailure(f) ==
  IF f.kind = "timeout" THEN Some(TIMEOUT)
  ELSE Some(Truncate(Strip(f.stderr), ErrLimit))

\* C1: an invocation that exits non-zero is scored as a failure whatever it
\* wrote to stderr: its elapsed time never enters times (times never holds
\* more values than timed invocations succeeded), and once the call has ended
\* it has returned a result with error set.
C1_NonzeroExitIsFailure ==
  /\ Len(times) <= okCount
  /\ (Ended /\ firstFailure # None /\ firstFailure[1].kind = "exit")
       => (pc = "done" /\ result[1].error # None)

\* C2: a failed warmup (non-zero exit or timeout) ends the call at that
\* invocation: nothing is launched after it, and the result has empty times
\* and an error that starts with "warmup failed:".
C2_WarmupFailureAborts ==
  (Ended /\ FailedInWarmup)
    => /\ pc = "done"
       /\ Len(launches) = firstFailure[1].slot
       /\ \A k \in DOMAIN launches : launches[k][1] = "warmup"
       /\ result[1].times = <<>>
       /\ result[1].error # None
       /\ IsPrefix(WarmupFailedColon, result[1].error[1])

\* C3: when the k-th timed invocation is the first to fail, times holds
\* exactly the k-1 elapsed values collected before it, error is that run's
\* error, and no later timed invocation is launched.
C3_TimedFailureKeepsPartialTimes ==
  (Ended /\ FailedInTimed)
    => LET k == firstFailure[1].slot - warmup
       IN /\ pc = "done"
          /\ Len(launches) = firstFailure[1].slot
          /\ result[1].times = SubSeq(elapsedLog, 1, k - 1)
          /\ result[1].error = ErrorOfFailure(firstFailure[1])

\* C4: a returned result with error set has median_time and min_time equal
\* to the infinite sentinel, also when times is not empty.
C4_ErrorResultHasSentinels ==
  (pc = "done" /\ result[1].error # None)
    => (result[1].median_time = Inf /\ result[1].min_time = Inf)

C4_Witness ==
  /\ pc = "done"
  /\ result[1].error # None
  /\ Len(result[1].times) >= 2

IsAscending(s) == \A k \in 1..(Len(s) - 1) : s[k] <= s[k + 1]

Count(s, v) == Cardinality({k \in DOMAIN s : s[k] = v})

\* the same values, each as many times
IsPermutation(s, t) ==
  /\ Len(s) = Len(t)
  /\ \A v \in Range(s) \cup Range(t) : Count(s, v) = Count(t, v)

\* C5: on full success with runs >= 1, times is the collected elapsed values
\* in ascending order, median_time is the element at 0-based index
\* floor(runs / 2) of it and min_time its first element; the raw times
\* [30, 10, 50, 20, 40] (hundredths of a second) give median 30 and min 10.
C5_SuccessStatistics ==
  /\ (pc = "done" /\ firstFailure = None /\ runs >= 1)
       => LET r == result[1]
          IN /\ r.error = None
             /\ Len(r.times) = runs
             /\ IsAscending(r.times)
             /\ IsPermutation(r.times, elapsedLog)
             /\ r.median_time = r.times[(runs \div 2) + 1]
             /\ r.min_time = r.times[1]
  /\ LET ex == SuccessResult(SortTimes(<<30, 10, 50, 20, 40>>))
     IN ex.times = <<10, 20, 30, 40, 50>> /\ ex.median_time = 30 /\ ex.min_time = 10

C5_Witness ==
  /\ pc = "done"
  /\ firstFailure = None
  /\ runs >= 3
  /\ elapsedLog[1] > elapsedLog[2]
  /\ elapsedLog[2] < elapsedLog[3]

\* the k-th smallest value of s (1 <= k <= Len(s)), found by counting
KthSmallest(s, k) ==
  CHOOSE v \in Range(s) :
    /\ Cardinality({j \in DOMAIN s : s[j] < v}) < k
    /\ Cardinality({j \in DOMAIN s : s[j] <= v}) >= k

EvenSuccess ==
  /\ pc = "done"
  /\ result[1].error = None
  /\ runs >= 2
  /\ runs % 2 = 0

\* C6 as stated: for an even runs the median of a successful result is the
\* lower of the two middle elements of the sorted times.
C6_LowerMedian ==
  EvenSuccess =>
    result[1].median_time = KthSmallest(result[1].times, runs \div 2)

\* C6 as amended: for an even runs the median of a successful result is the
\* upper of the two middle elements of the sorted times; when the two differ
\* it is neither the lower one nor their average.
C6_UpperMedian ==
  EvenSuccess =>
    LET lo == KthSmallest(result[1].times, runs \div 2)
        hi == KthSmallest(result[1].times, (runs \div 2) + 1)
        m == result[1].median_time
    IN /\ Len(result[1].times) = runs
       /\ m = hi
       /\ lo # hi => (m # lo /\ 2 * m # lo + hi)

C6_Witness ==
  /\ EvenSuccess
  /\ runs = 4
  /\ KthSmallest(result[1].times, 2) # KthSmallest(result[1].times, 3)

\* C7: in a successful result min_time <= median_time, and both are elements
\* of its times.
C7_MinLeMedian ==
  (pc = "done" /\ result[1].error = None)
    => LET r == result[1]
       IN /\ r.min_time <= r.median_time
          /\ r.min_time \in Range(r.times)
          /\ r.median_time \in Range(r.times)

C7_Witness ==
  /\ pc = "done"
  /\ result[1].error = None
  /\ result[1].min_time < result[1].median_time
  /\ Len(result[1].times) >= 3

\* the slots of a call, in the order the protocol visits them
SlotOrder ==
  [k \in 1..(warmup + runs) |->
     IF k <= warmup THEN <<"warmup", k - 1>> ELSE <<"timed", k - warmup - 1>>]

\* C8: the invocations run one after another without retries: at most one
\* process is alive, the slots are launched in protocol order (every warmup
\* before the first timed run, no slot twice), never more than
\* warmup + runs of them; on full success all of them are launched, and after
\* a failed invocation no further slot is.
C8_SequentialNoRetry ==
  /\ procs <= 1
  /\ Len(launches) <= warmup + runs
  /\ launches = SubSeq(SlotOrder, 1, Len(launches))
  /\ (pc \in {"warmup_run", "timed_run"}) = (procs = 1)
  /\ (Ended /\ firstFailure = None) => Len(launches) = warmup + runs
  /\ (Ended /\ firstFailure # None) => Len(launches) = firstFailure[1].slot

----------------------------------------------------------------------------
(* Properties of create_runners (checked under SpecRunners) *)

Passed(e) == health[e] = "ok"

\* C9: an engine whose health check exits non-zero is left out of runners
\* (with a warning) and does not make create_runners raise; runners holds
\* exactly the engines that passed their health check, in visiting order.
C9_UnhealthyEngineDropped ==
  /\ \A e \in Engines :
       health[e] = "nonzero" => (e \notin Range(runners) /\ e \in Range(warnings))
  /\ runners = SelectSeq(EngineOrder, Passed)
  /\ pc = "raised" => health[Current] \notin {"nonzero", "ok", "none"}

C9_Witness ==
  /\ pc = "cr_done"
  /\ health["datafusion"] = "nonzero"
  /\ health["duckdb"] = "ok"
  /\ health["clickhouse"] = "ok"
  /\ runners = <<"duckdb", "clickhouse">>

\* C10: an engine whose executable is not found, cannot be executed, or
\* whose health check times out fails construction with RuntimeError
\* (RunnerUnavailable): it is dropped with a warning and create_runners goes
\* on with the remaining engines.
C10_UnavailableEngineDropped ==
  \A e \in Engines :
    health[e] \in {"notfound", "noexec", "timeout"}
      => /\ e \in Range(warnings)
         /\ e \notin Range(runners)
         /\ ~(pc = "raised" /\ Current = e)

----------------------------------------------------------------------------
(* Properties of filter_udfs (checked under SpecFilter) *)

ByName(n) == CHOOSE u \in Range(Catalog) : u.name = n

\* include-list {"upper", "lower"} and exclude-list {"lower"}
UpperLowerConfig ==
  /\ udfs_cfg.include = Some({"upper", "lower"})
  /\ udfs_cfg.exclude = Some({"lower"})

\* C11 as stated: with that include-list and exclude-list (and no command-line
\* override) the selected cases are exactly "upper", for every category
\* allow-list.
C11_UpperWhateverCategories ==
  (pc = "filtered" /\ UpperLowerConfig /\ cli_udfs = None /\ cli_categories = None)
    => Names(udfs) = <<"upper">>

\* C11 as amended: with that include-list and exclude-list the selected
\* cases are exactly "upper" when every category filter given (the
\* allow-list, --category) holds the category of "upper" and --udf, if
\* given, names "upper"; otherwise no case is selected.
C11_UpperUnlessFilteredOut ==
  (pc = "filtered" /\ UpperLowerConfig)
    => LET cat == ByName("upper").category
           kept ==
             /\ ~NonEmpty(udfs_cfg.categories) \/ cat \in udfs_cfg.categories[1]
             /\ cli_categories = None \/ cat \in cli_categories[1]
             /\ cli_udfs = None \/ "upper" \in cli_udfs[1]
       IN Names(udfs) = IF kept THEN <<"upper">> ELSE <<>>

C11_Witness ==
  /\ pc = "filtered"
  /\ UpperLowerConfig
  /\ udfs_cfg.categories = Some({"math"})
  /\ cli_udfs = None
  /\ cli_categories = None
  /\ udfs = <<>>

\* C12: a command-line override replaces the file-based filters: a case
\* named by --udf (and in a category given by --category, if any) is
\* selected whatever the configuration file's include-list, exclude-list and
\* category allow-list say, and with --category alone the allow-list of the
\* file does not remove a case of a category given on the command line.
C12_CliOverrides ==
  pc = "filtered" =>
    \A u \in Range(Catalog) :
      /\ (/\ cli_udfs # None
          /\ u.name \in cli_udfs[1]
          /\ cli_categories = None \/ u.category \in cli_categories[1])
           => u \in Range(udfs)
      /\ (/\ cli_udfs = None
          /\ cli_categories # None
          /\ u.category \in cli_categories[1]
          /\ ~NonEmpty(udfs_cfg.include) \/ u.name \in udfs_cfg.include[1]
          /\ ~NonEmpty(udfs_cfg.exclude) \/ u.name \notin udfs_cfg.exclude[1])
           => u \in Range(udfs)

\* C19: after filter_udfs no selected case is named in the exclude-list,
\* and when the configuration has an include-list (also an empty one) every
\* selected case is named in it.
C19_ExcludeAndInclude ==
  pc = "filtered" =>
    \A u \in Range(udfs) :
      /\ udfs_cfg.exclude # None => u.name \notin udfs_cfg.exclude[1]
      /\ udfs_cfg.include # None => u.name \in udfs_cfg.include[1]

\* C17: an invocation that exceeds the timeout ends the call as a failure
\* with the literal error TIMEOUT and the timeout as its elapsed time: a
\* timed-out warmup returns a result with error "warmup failed: TIMEOUT" and
\* no times; a timed-out timed run returns a result with error "TIMEOUT" and
\* the times collected before it, to which the timeout is not added.
C17_TimeoutScoredAsFailure ==
  [][LET o == TimeoutOutcome(DefaultTimeout)
     IN /\ WarmupFinish(o)
             => /\ pc' = "done"
                /\ result' # None
                /\ result'[1].error = Some(WarmupPrefix \o TIMEOUT)
                /\ result'[1].times = <<>>
                /\ result'[1].median_time = Inf
                /\ result'[1].min_time = Inf
                /\ times' = times
        /\ TimedFinish(o)
             => /\ pc' = "done"
                /\ result' # None
                /\ result'[1].error = Some(TIMEOUT)
                /\ result'[1].times = times
                /\ result'[1].median_time = Inf
                /\ result'[1].min_time = Inf
                /\ times' = times
                /\ elapsedLog' = Append(elapsedLog, DefaultTimeout)]_vars

C17_Witness ==
  /\ pc = "done"
  /\ result[1].error = Some(TIMEOUT)
  /\ Len(result[1].times) >= 1
  /\ elapsedLog[Len(elapsedLog)] = DefaultTimeout

\* C18: when every step that can be taken is taken, every benchmark call
\* eventually returns a result.
C18_BenchmarkEventuallyReturns == <>(pc = "done" /\ result # None)

\* C20: benchmark never raises: a call that has ended has returned a result.
C20_BenchmarkNeverRaises == Ended => (pc = "done" /\ result # None /\ exc = None)

----------------------------------------------------------------------------
(* Properties of main (checked under SpecMain) *)

\* the progress lines and the table cells of a (case, engine) pair
LinesOf(n, s) == {k \in DOMAIN progress : progress[k].udf = n /\ progress[k].system = s}
CellsOf(n, s) ==
  IF table = None THEN {}
  ELSE {table[1][k].cells[j].text :
          k \in {r \in DOMAIN table[1] : table[1][r].udf = n},
          j \in {c \in DOMAIN runners : runners[c] = s}}

\* C13: for a selected case with no template for engine X the driver makes no
\* call to X's adapter for that case (no table_ref, no benchmark, no process
\* launch) and stores no result; the pair is reported as "n/a", on its
\* progress line and in its table cell, and "n/a" is reported for no pair
\* that has a template (whose outcome is a time or ERROR).
C13_NoTemplateNotApplicable ==
  \A k \in DOMAIN udfs : \A s \in Engines :
    LET n == udfs[k].name
    IN IF s \in udfs[k].unsupported
       THEN /\ \A c \in Range(calls) : ~(c.udf = n /\ c.system = s)
            /\ <<n, s>> \notin Range(launchLog)
            /\ all_results[n] # None => all_results[n][1][s] = None
            /\ <<n, s>> \in Range(visits) => LinesOf(n, s) # {}
            /\ \A l \in LinesOf(n, s) : progress[l].text = "n/a"
            /\ CellsOf(n, s) \subseteq {"n/a"}
            /\ (table # None /\ s \in Range(runners)) => CellsOf(n, s) = {"n/a"}
       ELSE /\ \A l \in LinesOf(n, s) : progress[l].text \in {"time", "ERROR"}
            /\ CellsOf(n, s) \subseteq {"time", "ERROR"}

C13_Witness ==
  /\ pc = "main_done"
  /\ runners = EngineOrder
  /\ \E k \in DOMAIN table[1] :
       /\ table[1][k].udf = "initcap"
       /\ table[1][k].cells[1].text = "time"
       /\ table[1][k].cells[2].text = "n/a"
       /\ table[1][k].cells[3].text = "ERROR"

MainEnded == pc \in {"exited", "raised", "main_done"}

\* some measurement of the sweep has returned an error result
SomeErrorResult ==
  \E n \in CaseNames : \E s \in Engines :
    /\ all_results[n] # None
    /\ all_results[n][1][s] # None
    /\ Truthy(all_results[n][1][s][1].error)

\* C14: a run in which a measurement returned an error result ends with the
\* table printed, every selected (case, engine) pair visited, and exactly one
\* outcome reported for each pair: a time, ERROR or n/a.
C14_SweepSurvivesFailures ==
  (MainEnded /\ SomeErrorResult)
    => /\ pc = "main_done"
       /\ \A k \in DOMAIN udfs : \A j \in DOMAIN runners :
            LET n == udfs[k].name
                s == runners[j]
            IN /\ <<n, s>> \in Range(visits)
               /\ Cardinality(LinesOf(n, s)) = 1
               /\ Cardinality(CellsOf(n, s)) = 1
               /\ CellsOf(n, s) \subseteq {"time", "ERROR", "n/a"}

\* the pairs of a sweep over the cases and the engines, case by case
ExpectedVisits(cases, engs) ==
  [k \in 1..(Len(cases) * Len(engs)) |->
     <<cases[((k - 1) \div Len(engs)) + 1].name, engs[((k - 1) % Len(engs)) + 1]>>]

\* the members of avail, in the order of order
InOrderOf(order, avail) == SelectSeq(order, LAMBDA e : e \in Range(avail))

VisitsFollow(cases, engs) ==
  /\ IsPrefix(visits, ExpectedVisits(cases, engs))
  /\ pc = "main_done" => visits = ExpectedVisits(cases, engs)

PastRunners ==
  pc \in {"filter", "filtered", "case_loop", "sys_loop", "warmup", "warmup_run",
          "timed", "timed_run", "done", "main_done"}
PastFilter == PastRunners /\ pc \notin {"filter", "filtered"}

\* C16: a run with no engine available after construction, or with no case
\* left after filtering, goes no further: it exits with status 1, and no
\* adapter was called and no query process launched; the sweep is only ever
\* entered with at least one engine and one case.
C16_EmptySetsAreFatal ==
  /\ PastRunners => runners # <<>>
  /\ PastFilter => udfs # <<>>
  /\ (launchLog # <<>> \/ calls # <<>> \/ visits # <<>>)
       => (runners # <<>> /\ udfs # <<>>)
  /\ exitCode # None => pc = "exited"
  /\ pc = "exited"
       => /\ exitCode = Some(1)
          /\ ~dataExists \/ runners = <<>> \/ udfs = <<>>
          /\ launchLog = <<>>
          /\ calls = <<>>
          /\ table = None
          /\ ~ENABLED NextMain

C16_Witness ==
  /\ pc = "exited"
  /\ dataExists
  /\ runners # <<>>
  /\ udfs = <<>>
  /\ launchLog = <<>>

----------------------------------------------------------------------------
(* Further properties of create_runners (SpecRunners) and benchmark (Spec) *)

\* C21: an engine with no entry in the configuration's systems table does
\* not make create_runners raise and is not in runners.
C21_NoEntryEngineLeftOut ==
  \A e \in Engines :
    config[e] = None
      => /\ e \notin Range(runners)
         /\ ~(pc = "raised" /\ Current = e)

\* C22: in a returned result, times holds one value per timed invocation that
\* succeeded, each an elapsed value of a timed invocation and none the
\* timeout, and error is unset exactly when all warmups succeeded and that
\* number is runs.
C22_TimesOnlySuccessfulRuns ==
  (pc = "done" /\ result # None)
    => /\ Len(result[1].times) = okCount
       /\ Range(result[1].times) \subseteq Range(elapsedLog) \ {DefaultTimeout}
       /\ result[1].error = None <=> (~FailedInWarmup /\ okCount = runs)

====
